---------------------------- MODULE Spec2Model ----------------------------
(***************************************************************************)
(* Character-level RNN notebook (Character_Level_RNN_Solution.ipynb).      *)
(*                                                                         *)
(* The components modelled as state machines:                              *)
(*   - get_batches : the generator that windows an encoded corpus into     *)
(*                   (x, y) training batches                               *)
(*   - sample      : the autoregressive decoding loop, with predict        *)
(*                   inlined into every step that calls it                 *)
(*   - the tokenization cell and one_hot_encode                            *)
(*   - train       : the epoch / window / validation loop nest             *)
(*                                                                         *)
(* Arrays are 0-based in the source and 1-based here: source index k of a  *)
(* sequence s is s[k+1].  A 2-d numpy array is a sequence of rows.         *)
(***************************************************************************)
EXTENDS Integers, Sequences, FiniteSets, TLC

VARIABLES
    \* ---- get_batches ----
    arr,          \* the array passed to get_batches (encoded corpus)
    batch_size,   \* N
    seq_length,   \* M
    grid,         \* arr after truncation and reshape((batch_size, -1))
    src,          \* index of the corpus element each grid cell is a view of
    n,            \* loop variable of `for n in range(0, arr.shape[1], seq_length)`
    yielded,      \* the (x, y) pairs yielded so far, in order
    gpc,          \* position of the generator
    \* ---- sample / predict ----
    tokens,       \* net.chars
    net,          \* the trained network (opaque parameters)
    prime,        \* priming string
    size,         \* number of characters to generate
    top_k,        \* NoTopK or K
    chars,        \* the list `chars` of sample
    char,         \* the local `char` of sample (Unbound before first assignment)
    h,            \* recurrent state held by sample
    idx,          \* position in `for ch in prime` / `for ii in range(size)`
    calls,        \* log of the predict calls made so far
    spc,          \* position of sample
    serr,         \* exception that ended sample, if any
    \* ---- tokenization cell ----
    text,         \* the text read from the file
    vocab,        \* the global `chars`
    i2c,          \* the global int2char
    c2i,          \* the global char2int
    encoded,      \* the encoded text
    vpc,          \* position in the tokenization cell
    \* ---- one_hot_encode ----
    oh_arr,       \* argument arr (2-d)
    oh_labels,    \* argument n_labels
    one_hot,      \* the local one_hot
    opc,          \* position in one_hot_encode
    \* ---- train (batch_size and seq_length above are its arguments too) ----
    data,         \* argument data, as passed
    epochs,       \* argument epochs
    clip,         \* argument clip
    val_frac,     \* argument val_frac, a fraction num/den
    print_every,  \* argument print_every
    val_idx,      \* the local val_idx
    train_data,   \* `data` after the split
    val_data,     \* the local val_data
    epoch,        \* loop variable e of `for e in range(epochs)`
    counter,      \* the local counter
    t_h,          \* the local h
    val_h,        \* the local val_h
    mode,         \* net.training: "train" or "eval"
    wi,           \* training windows consumed in the current epoch
    vi,           \* validation windows consumed in the current pass
    grad,         \* norm of the gradient held by the parameters
    last_win,     \* what the last training window did
    opt_steps,    \* number of opt.step() calls, which is the parameter version
    tcalls,       \* log of the forward passes on training windows
    vcalls,       \* log of the forward passes on validation windows
    vals,         \* log of the validation passes
    tpc           \* position of train

gvars == <<arr, batch_size, seq_length, grid, src, n, yielded, gpc>>
svars == <<tokens, net, prime, size, top_k, chars, char, h, idx, calls, spc, serr>>
vvars == <<text, vocab, i2c, c2i, encoded, vpc>>
ovars == <<oh_arr, oh_labels, one_hot, opc>>
vars  == <<arr, batch_size, seq_length, grid, src, n, yielded, gpc,
           tokens, net, prime, size, top_k, chars, char, h, idx, calls, spc, serr,
           text, vocab, i2c, c2i, encoded, vpc,
           oh_arr, oh_labels, one_hot, opc,
           data, epochs, clip, val_frac, print_every, val_idx, train_data, val_data,
           epoch, counter, t_h, val_h, mode, wi, vi, grad, last_win, opt_steps,
           tcalls, vcalls, vals, tpc>>
tvars == <<data, epochs, clip, val_frac, print_every, val_idx, train_data, val_data,
           epoch, counter, t_h, val_h, mode, wi, vi, grad, last_win, opt_steps,
           tcalls, vcalls, vals, tpc>>

\* everything outside one component
notBatches == <<svars, vvars, ovars, tvars>>
notSample  == <<gvars, vvars, ovars, tvars>>
notVocab   == <<gvars, ovars, tvars>>
notOneHot  == <<gvars, svars, vvars, tvars>>
notTrain   == <<gvars, svars, vvars, ovars>>

---------------------------------------------------------------------------
(* Bounds of the model *)

MaxId  == 1     \* corpus ids range over 0..MaxId
MaxLen == 8     \* corpora of length 0..MaxLen
MaxN   == 2     \* batch_size in 1..MaxN
MaxM   == 3     \* seq_length in 1..MaxM

MaxPrime == 2   \* priming strings of length 0..MaxPrime
MaxSize  == 2   \* size in 0..MaxSize
MaxScore == 2   \* class scores of the network range over 0..MaxScore

MaxData       == 6  \* train is given corpora of length 0..MaxData
MaxEpochs     == 2  \* epochs in 0..MaxEpochs
MaxPrintEvery == 2  \* print_every in 1..MaxPrintEvery
MaxClip       == 1  \* clip in 1..MaxClip; a raw gradient norm is in 0..clip+1

\* the values of val_frac tried: 0, 0.1 (the default), 0.5 and 1
ValFracs == {[num |-> 0, den |-> 1], [num |-> 1, den |-> 10],
             [num |-> 1, den |-> 2], [num |-> 1, den |-> 1]}

MaxText   == 4  \* texts of length 0..MaxText
MaxLabels == 3  \* n_labels in 1..MaxLabels
MaxRows   == 2  \* one_hot_encode is tried on arrays of 1..MaxRows rows
MaxCols   == 2  \* and 1..MaxCols columns

\* the characters a text may contain
Alphabet == {"A", "B", "C"}

\* the scenario corpus "abcabcabcabc" with a=0, b=1, c=2
ExampleCorpus == <<0, 1, 2, 0, 1, 2, 0, 1, 2, 0, 1, 2>>

None    == "None"
\* top_k=None, kept apart from every K >= 0
NoTopK  == -1
Unbound == "Unbound"

---------------------------------------------------------------------------
(* Generic helpers *)

Min(a, b) == IF a < b THEN a ELSE b

SeqsUpTo(S, k) == UNION {[1..m -> S] : m \in 0..k}

\* np.arange(k) as a sequence
Arange(k) == [j \in 1..k |-> j - 1]

Range(f) == {f[x] : x \in DOMAIN f}

RECURSIVE SumOver(_, _)
SumOver(f, S) ==
    IF S = {} THEN 0
    ELSE LET x == CHOOSE y \in S : TRUE IN f[x] + SumOver(f, S \ {x})

RECURSIVE Flatten(_)
Flatten(ss) == IF ss = <<>> THEN <<>> ELSE Head(ss) \o Flatten(Tail(ss))

---------------------------------------------------------------------------
(* get_batches *)

\* total_batch_size = batch_size * seq_length
total_batch_size(bs, sl) == bs * sl

\* n_batches = len(arr)//total_batch_size
n_batches(a, bs, sl) == Len(a) \div total_batch_size(bs, sl)

\* arr[:k] with the truncation dropped (the remainder is kept)
TruncateKeepAll(a, k) == a

\* arr[:k]
Truncate(a, k) == SubSeq(a, 1, Min(k, Len(a)))

\* a reshape that rejects an array of size 0
ReshapeOkNonEmpty(a, bs) == bs # 0 /\ Len(a) # 0 /\ Len(a) % bs = 0

\* a column-major reshape (the rows interleave instead of being contiguous)
ReshapeColumnMajor(a, bs) ==
    LET cols == Len(a) \div bs
    IN  [r \in 1..bs |-> [c \in 1..cols |-> a[(c - 1) * bs + r]]]

\* arr.reshape((batch_size, -1)) is defined when the size is a multiple of
\* batch_size (a size of 0 included: the result then has shape (batch_size, 0))
ReshapeOk(a, bs) == bs # 0 /\ Len(a) % bs = 0

\* arr.reshape((batch_size, -1)): row-major, rows of Len(a) / batch_size cells
Reshape(a, bs) ==
    LET cols == Len(a) \div bs
    IN  [r \in 1..bs |-> SubSeq(a, (r - 1) * cols + 1, r * cols)]

\* arr.shape[1]
Cols(g) == IF Len(g) = 0 THEN 0 ELSE Len(g[1])

\* arr[:, a:b]
Slice(g, a, b) == [r \in 1..Len(g) |-> SubSeq(g[r], a + 1, Min(b, Cols(g)))]

\* arr[:, c]  (raises IndexError when c is not a column of arr)
ColumnInRange(g, c) == c < Cols(g)
Column(g, c) == [r \in 1..Len(g) |-> g[r][c + 1]]

\* x = arr[:, n : n + seq_length]
Features(g, off, sl) == Slice(g, off, off + sl)

\* a last column that always wraps to column 0
LastColumnAlwaysWrap(g, off, sl) == Column(g, 0)

\* the column assigned to y[:, -1]: arr[:, n+seq_length], or arr[:, 0] in the
\* except IndexError branch
LastColumn(g, off, sl) ==
    IF ColumnInRange(g, off + sl) THEN Column(g, off + sl) ELSE Column(g, 0)

\* targets that are not shifted: y[:, :-1] = x[:, :-1]
TargetsUnshifted(g, off, sl) ==
    LET x    == Features(g, off, sl)
        last == LastColumn(g, off, sl)
    IN  [r \in 1..Len(x) |-> SubSeq(x[r], 1, Len(x[r]) - 1) \o <<last[r]>>]

\* y[:, :-1], y[:, -1] = x[:, 1:], <last column>
Targets(g, off, sl) ==
    LET x    == Features(g, off, sl)
        last == LastColumn(g, off, sl)
    IN  [r \in 1..Len(x) |-> SubSeq(x[r], 2, Len(x[r])) \o <<last[r]>>]

\* one iteration of the loop body: the yielded pair, with the corpus indices
\* its cells are read from (xi, yi) and the offset it was cut at
Window(g, s, off, sl) ==
    [x  |-> Features(g, off, sl), y  |-> Targets(g, off, sl),
     xi |-> Features(s, off, sl), yi |-> Targets(s, off, sl),
     n  |-> off]

TrainIdle ==
    /\ data = <<>> /\ epochs = 0 /\ clip = 0 /\ val_frac = <<>> /\ print_every = 0
    /\ val_idx = 0 /\ train_data = <<>> /\ val_data = <<>> /\ epoch = 0 /\ counter = 0
    /\ t_h = <<>> /\ val_h = <<>> /\ mode = "idle" /\ wi = 0 /\ vi = 0 /\ grad = 0
    /\ last_win = <<>> /\ opt_steps = 0 /\ tcalls = <<>> /\ vcalls = <<>> /\ vals = <<>>
    /\ tpc = "idle"

VocabIdle ==
    /\ text = <<>> /\ vocab = <<>> /\ i2c = <<>> /\ c2i = <<>> /\ encoded = <<>>
    /\ vpc = "idle"

OneHotIdle ==
    /\ oh_arr = <<>> /\ oh_labels = 0 /\ one_hot = <<>> /\ opc = "idle"

SampleIdle ==
    /\ tokens = <<>> /\ net = None /\ prime = <<>> /\ size = 0 /\ top_k = NoTopK
    /\ chars = <<>> /\ char = Unbound /\ h = <<>> /\ idx = 0 /\ calls = <<>>
    /\ spc = "idle" /\ serr = None

InitBatches ==
    /\ arr \in SeqsUpTo(0..MaxId, MaxLen) \cup {ExampleCorpus}
    /\ batch_size \in 1..MaxN
    /\ seq_length \in 1..MaxM
    /\ grid = <<>> /\ src = <<>> /\ n = 0 /\ yielded = <<>>
    /\ gpc = "start"
    /\ SampleIdle
    /\ VocabIdle /\ OneHotIdle /\ TrainIdle

\* first resumption of the generator: everything before the for loop
GBSetup ==
    /\ gpc = "start"
    /\ LET k   == n_batches(arr, batch_size, seq_length)
           t   == Truncate(arr, k * total_batch_size(batch_size, seq_length))
           ti  == Truncate(Arange(Len(arr)), k * total_batch_size(batch_size, seq_length))
       IN  IF ReshapeOk(t, batch_size)
           THEN /\ grid' = Reshape(t, batch_size)
                /\ src'  = Reshape(ti, batch_size)
                /\ gpc'  = "loop"
           ELSE /\ gpc' = "error"      \* ValueError from reshape
                /\ UNCHANGED <<grid, src>>
    /\ n' = 0
    /\ UNCHANGED <<arr, batch_size, seq_length, yielded>>
    /\ UNCHANGED notBatches

\* one iteration of `for n in range(0, arr.shape[1], seq_length)`: yield x, y
GBYield ==
    /\ gpc = "loop"
    /\ n < Cols(grid)
    /\ yielded' = Append(yielded, Window(grid, src, n, seq_length))
    /\ n' = n + seq_length
    /\ UNCHANGED <<arr, batch_size, seq_length, grid, src, gpc>>
    /\ UNCHANGED notBatches

\* the range is exhausted: the generator returns
GBStop ==
    /\ gpc = "loop"
    /\ n >= Cols(grid)
    /\ gpc' = "done"
    /\ UNCHANGED <<arr, batch_size, seq_length, grid, src, n, yielded>>
    /\ UNCHANGED notBatches

NextBatches == GBSetup \/ GBYield \/ GBStop

SpecBatches == InitBatches /\ [][NextBatches]_vars

---------------------------------------------------------------------------
(* CharRNN: vocabulary, recurrent state, forward pass *)

\* a decoding table over the whole alphabet instead of the vocabulary
int2charOfAlphabet(tk) == [k \in 0..(Len(tk) - 1) |-> <<"C", "B", "A">>[k + 1]]

\* self.int2char = dict(enumerate(self.chars))
int2char(tk) == [k \in 0..(Len(tk) - 1) |-> tk[k + 1]]

\* a lookup that answers id 0 for a character outside the vocabulary
char2intDefault(tk) ==
    [ch \in Alphabet |->
        IF ch \in Range(tk) THEN (CHOOSE k \in 0..(Len(tk) - 1) : tk[k + 1] = ch) ELSE 0]

\* self.char2int = {ch: ii for ii, ch in self.int2char.items()}
\* (a later item overwrites an earlier one with the same key)
char2int(tk) ==
    [ch \in Range(tk) |->
        CHOOSE k \in 0..(Len(tk) - 1) :
            /\ tk[k + 1] = ch
            /\ \A m \in 0..(Len(tk) - 1) : tk[m + 1] = ch => m <= k]

\* one_hot_encode(np.array([[k]]), n_labels): the single row of the result
one_hot_encode(k, n_labels) == [c \in 0..(n_labels - 1) |-> IF c = k THEN 1 ELSE 0]

\* The recurrent state is a pair of tensors.  Its value is abstracted to the
\* sequence of inputs it has absorbed since init_hidden (any state a
\* deterministic recurrent network can be in is a function of that sequence);
\* `attached` says whether the tensors carry autograd history.
init_hidden == [val |-> <<>>, attached |-> FALSE]

\* h = tuple([each.data for each in h]): same values, no autograd history
Detach(hid) == [val |-> hid.val, attached |-> FALSE]

\* net(inputs, h) for a single one-hot input.  The LSTM and the linear layer
\* are an opaque deterministic function of the parameters, the input and the
\* state: scores are the parameter vector w, rotated by input and state when
\* mix = 1 and constant when mix = 0.
forward(nt, x, hid) ==
    LET V  == Len(nt.w)
        k  == SumOver([c \in DOMAIN x |-> c * x[c]], DOMAIN x)
        sh == nt.mix * (k + Len(hid.val))
    IN  [out |-> [c \in 0..(V - 1) |-> nt.w[((c + sh) % V) + 1]],
         h   |-> [val |-> Append(hid.val, k), attached |-> TRUE]]

\* the networks over a vocabulary of V characters
Nets(V) == [w : [1..V -> 0..MaxScore], mix : 0..1]

---------------------------------------------------------------------------
(* predict *)

Exp2(e) == 2 ^ e

\* F.softmax(out, dim=1): exponentials over their sum.  A probability is kept
\* as a numerator over the common denominator SumOver(p, DOMAIN p).
softmax(out) == [c \in DOMAIN out |-> Exp2(out[c])]

\* a truncation that keeps the k least probable ids
topkLowest(p, k) ==
    {S \in SUBSET (DOMAIN p) :
        /\ Cardinality(S) = k
        /\ \A c \in S : \A d \in (DOMAIN p) \ S : p[c] <= p[d]}

\* p.topk(top_k): the index sets the call may return (ties are broken by the
\* library): k ids none of which is less probable than an id left out
topk(p, k) ==
    {S \in SUBSET (DOMAIN p) :
        /\ Cardinality(S) = k
        /\ \A c \in S : \A d \in (DOMAIN p) \ S : p[c] >= p[d]}

\* p / p.sum() over the candidates
Renormalise(p, S) == [num |-> [c \in S |-> p[c]], den |-> SumOver(p, S)]

\* squeeze() of a (1, k) array is 0-dimensional when k = 1, and
\* np.random.choice rejects a 0-dimensional p
ChoiceRaises(S) == Cardinality(S) = 1

\* np.random.choice(top_ch, p=...): any candidate of non-zero probability
Choice(S, q) == {c \in S : q.num[c] > 0}

NoCall == [ok |-> FALSE, err |-> "KeyError", invoked |-> FALSE, char |-> None,
           id |-> -1, h |-> init_hidden, hin |-> init_hidden, p |-> <<>>, cand |-> {}]

\* every outcome of predict(net, ch, hid, top_k)
predict(tk, nt, ch, hid, k) ==
    IF ch \notin DOMAIN char2int(tk)
    THEN {NoCall}                                 \* net.char2int[char]: KeyError
    ELSE
      LET x   == one_hot_encode(char2int(tk)[ch], Len(tk))
          hin == Detach(hid)
          f   == forward(nt, x, hin)
          p   == softmax(f.out)
          tops == IF k = NoTopK THEN {0..(Len(tk) - 1)} ELSE topk(p, k)
      IN  UNION {
            IF ChoiceRaises(S)
            THEN {[ok |-> FALSE, err |-> "ChoiceError", invoked |-> TRUE, char |-> None,
                   id |-> -1, h |-> f.h, hin |-> hin, p |-> p, cand |-> S]}
            ELSE {[ok |-> TRUE, err |-> None, invoked |-> TRUE, char |-> int2char(tk)[c],
                   id |-> c, h |-> f.h, hin |-> hin, p |-> p, cand |-> S]
                    : c \in Choice(S, Renormalise(p, S))}
            : S \in tops}

\* the entry a call leaves in the log of model invocations
LogEntry(phase, ch, o) ==
    [phase |-> phase, ch |-> ch, hin |-> o.hin, hout |-> o.h, p |-> o.p,
     cand |-> o.cand, id |-> o.id, drawn |-> o.char]

---------------------------------------------------------------------------
(* sample *)

\* the vocabularies tried: tuple(set(text)) for texts of one, two and three
\* distinct characters, in an order that is not the alphabetical one
Vocabularies == {<<"A">>, <<"B", "A">>, <<"B", "C", "A">>}

BatchesIdle ==
    /\ arr = <<>> /\ batch_size = 1 /\ seq_length = 1 /\ grid = <<>> /\ src = <<>>
    /\ n = 0 /\ yielded = <<>> /\ gpc = "idle"

\* the scenario: prime "A", top_k = 1, length 5, a model that always favours 'B'
ExampleSample ==
    /\ tokens = <<"A", "B">>
    /\ net = [w |-> <<0, 1>>, mix |-> 0]
    /\ prime = <<"A">> /\ size = 5 /\ top_k = 1

InitSample ==
    /\ \/ /\ tokens \in Vocabularies
          /\ net \in Nets(Len(tokens))
          /\ prime \in SeqsUpTo(Alphabet, MaxPrime)
          /\ size \in 0..MaxSize
          /\ top_k \in {NoTopK} \cup (1..Len(tokens))
       \/ ExampleSample
    /\ chars = <<>> /\ char = Unbound /\ h = init_hidden /\ idx = 0
    /\ calls = <<>> /\ spc = "start" /\ serr = None
    /\ BatchesIdle
    /\ VocabIdle /\ OneHotIdle /\ TrainIdle

\* chars = [ch for ch in prime]; h = net.init_hidden(1)
SStart ==
    /\ spc = "start"
    /\ chars' = prime
    /\ h' = init_hidden
    /\ idx' = 0
    /\ spc' = "priming"
    /\ UNCHANGED <<tokens, net, prime, size, top_k, char, calls, serr>>
    /\ UNCHANGED notSample

\* one iteration of `for ch in prime`, appending what it draws
SPrimeAppendEach ==
    /\ spc = "priming"
    /\ idx < Len(prime)
    /\ \E o \in predict(tokens, net, prime[idx + 1], h, top_k) :
        /\ calls' = IF o.invoked THEN Append(calls, LogEntry("priming", prime[idx + 1], o))
                    ELSE calls
        /\ IF o.ok
           THEN /\ char' = o.char /\ h' = o.h /\ idx' = idx + 1
                /\ chars' = Append(chars, o.char)
                /\ UNCHANGED <<spc, serr>>
           ELSE /\ spc' = "error" /\ serr' = o.err
                /\ UNCHANGED <<char, h, idx, chars>>
    /\ UNCHANGED <<tokens, net, prime, size, top_k>>
    /\ UNCHANGED notSample

\* one iteration of `for ch in prime`: char, h = predict(net, ch, h, top_k=top_k)
SPrime ==
    /\ spc = "priming"
    /\ idx < Len(prime)
    /\ \E o \in predict(tokens, net, prime[idx + 1], h, top_k) :
        /\ calls' = IF o.invoked THEN Append(calls, LogEntry("priming", prime[idx + 1], o))
                    ELSE calls
        /\ IF o.ok
           THEN /\ char' = o.char /\ h' = o.h /\ idx' = idx + 1
                /\ UNCHANGED <<spc, serr>>
           ELSE /\ spc' = "error" /\ serr' = o.err
                /\ UNCHANGED <<char, h, idx>>
    /\ UNCHANGED <<tokens, net, prime, size, top_k, chars>>
    /\ UNCHANGED notSample

\* an end of priming that appends the first vocabulary character when nothing
\* was drawn
SPrimeEndDefault ==
    /\ spc = "priming"
    /\ idx = Len(prime)
    /\ chars' = Append(chars, IF char = Unbound THEN tokens[1] ELSE char)
    /\ idx' = 0
    /\ spc' = "generating"
    /\ UNCHANGED <<tokens, net, prime, size, top_k, char, h, calls, serr>>
    /\ UNCHANGED notSample

\* after the priming loop: chars.append(char)
SPrimeEnd ==
    /\ spc = "priming"
    /\ idx = Len(prime)
    /\ IF char = Unbound
       THEN /\ spc' = "error" /\ serr' = "UnboundLocalError"
            /\ UNCHANGED <<chars, idx>>
       ELSE /\ chars' = Append(chars, char)
            /\ idx' = 0
            /\ spc' = "generating"
            /\ UNCHANGED serr
    /\ UNCHANGED <<tokens, net, prime, size, top_k, char, h, calls>>
    /\ UNCHANGED notSample

\* an iteration of the generating loop that feeds the first character again
\* and restarts from a fresh state
SGenStale ==
    /\ spc = "generating"
    /\ idx < size
    /\ \E o \in predict(tokens, net, chars[1], init_hidden, top_k) :
        /\ calls' = IF o.invoked THEN Append(calls, LogEntry("generating", chars[1], o))
                    ELSE calls
        /\ IF o.ok
           THEN /\ char' = o.char /\ h' = o.h /\ idx' = idx + 1
                /\ chars' = Append(chars, o.char)
                /\ UNCHANGED <<spc, serr>>
           ELSE /\ spc' = "error" /\ serr' = o.err
                /\ UNCHANGED <<char, h, idx, chars>>
    /\ UNCHANGED <<tokens, net, prime, size, top_k>>
    /\ UNCHANGED notSample

\* one iteration of `for ii in range(size)`:
\* char, h = predict(net, chars[-1], h, top_k=top_k); chars.append(char)
SGen ==
    /\ spc = "generating"
    /\ idx < size
    /\ \E o \in predict(tokens, net, chars[Len(chars)], h, top_k) :
        /\ calls' = IF o.invoked
                    THEN Append(calls, LogEntry("generating", chars[Len(chars)], o))
                    ELSE calls
        /\ IF o.ok
           THEN /\ char' = o.char /\ h' = o.h /\ idx' = idx + 1
                /\ chars' = Append(chars, o.char)
                /\ UNCHANGED <<spc, serr>>
           ELSE /\ spc' = "error" /\ serr' = o.err
                /\ UNCHANGED <<char, h, idx, chars>>
    /\ UNCHANGED <<tokens, net, prime, size, top_k>>
    /\ UNCHANGED notSample

\* return ''.join(chars)
SReturn ==
    /\ spc = "generating"
    /\ idx = size
    /\ spc' = "done"
    /\ UNCHANGED <<tokens, net, prime, size, top_k, chars, char, h, idx, calls, serr>>
    /\ UNCHANGED notSample

NextSample == SStart \/ SPrime \/ SPrimeEnd \/ SGen \/ SReturn

SpecSample == InitSample /\ [][NextSample]_vars

---------------------------------------------------------------------------
(* Tokenization cell: chars, int2char, char2int, encoded *)

\* the orderings of a finite set
Orderings(S) == {q \in [1..Cardinality(S) -> S] : Range(q) = S}

\* a tuple built from the text itself, duplicates kept
TupleOfText(t) == {t}

\* chars = tuple(set(text)): the distinct characters, in whichever order the
\* set iterates
TupleOfSet(t) == Orderings(Range(t))

\* encoded = np.array([char2int[ch] for ch in text])
Encode(m, t) == [j \in 1..Len(t) |-> m[t[j]]]

InitVocab ==
    /\ text \in SeqsUpTo(Alphabet, MaxText)
    /\ vocab = <<>> /\ i2c = <<>> /\ c2i = <<>> /\ encoded = <<>>
    /\ vpc = "chars"
    /\ BatchesIdle /\ SampleIdle /\ OneHotIdle /\ TrainIdle

\* chars = tuple(set(text))
VChars ==
    /\ vpc = "chars"
    /\ vocab' \in TupleOfSet(text)
    /\ vpc' = "dicts"
    /\ UNCHANGED <<text, i2c, c2i, encoded>>
    /\ UNCHANGED <<svars, notVocab>>

\* int2char = dict(enumerate(chars)); char2int = {ch: ii for ii, ch in ...}
VDicts ==
    /\ vpc = "dicts"
    /\ i2c' = int2char(vocab)
    /\ c2i' = char2int(vocab)
    /\ vpc' = "encode"
    /\ UNCHANGED <<text, vocab, encoded>>
    /\ UNCHANGED <<svars, notVocab>>

\* encoded = np.array([char2int[ch] for ch in text])
VEncode ==
    /\ vpc = "encode"
    /\ encoded' = Encode(c2i, text)
    /\ vpc' = "net"
    /\ UNCHANGED <<text, vocab, i2c, c2i>>
    /\ UNCHANGED <<svars, notVocab>>

\* net = CharRNN(chars, ...): self.chars = tokens, from which the network
\* derives its own int2char and char2int
VNet ==
    /\ vpc = "net"
    /\ tokens' = vocab
    /\ vpc' = "done"
    /\ UNCHANGED <<text, vocab, i2c, c2i, encoded>>
    /\ UNCHANGED <<net, prime, size, top_k, chars, char, h, idx, calls, spc, serr>>
    /\ UNCHANGED notVocab

NextVocab == VChars \/ VDicts \/ VEncode \/ VNet

SpecVocab == InitVocab /\ [][NextVocab]_vars

---------------------------------------------------------------------------
(* one_hot_encode on a 2-d array *)

\* a fill that puts the 1 of row i at column i
OneHotFillDiagonal(z, flat) ==
    [i \in 1..Len(z) |-> [c \in DOMAIN z[i] |-> IF c = (i - 1) % Cardinality(DOMAIN z[i]) THEN 1 ELSE 0]]

\* np.zeros((arr.size, n_labels))
OneHotZeros(sz, n_labels) == [i \in 1..sz |-> [c \in 0..(n_labels - 1) |-> 0]]

\* one_hot[np.arange(one_hot.shape[0]), arr.flatten()] = 1.
OneHotFill(z, flat) ==
    [i \in 1..Len(z) |-> [c \in DOMAIN z[i] |-> IF c = flat[i] THEN 1 ELSE z[i][c]]]

\* the scenario of the test cell: [[3, 5, 1]] with 8 labels
ExampleOneHot == oh_arr = << <<3, 5, 1>> >> /\ oh_labels = 8

InitOneHot ==
    /\ \/ /\ oh_labels \in 1..MaxLabels
          /\ \E rows \in 1..MaxRows : \E cols \in 1..MaxCols :
                oh_arr \in [1..rows -> [1..cols -> 0..(oh_labels - 1)]]
       \/ ExampleOneHot
    /\ one_hot = <<>>
    /\ opc = "zeros"
    /\ BatchesIdle /\ SampleIdle /\ VocabIdle /\ TrainIdle

\* one_hot = np.zeros((arr.size, n_labels), dtype=np.float32)
OHZeros ==
    /\ opc = "zeros"
    /\ one_hot' = OneHotZeros(Len(Flatten(oh_arr)), oh_labels)
    /\ opc' = "fill"
    /\ UNCHANGED <<oh_arr, oh_labels>>
    /\ UNCHANGED notOneHot

\* one_hot[np.arange(one_hot.shape[0]), arr.flatten()] = 1.
OHFill ==
    /\ opc = "fill"
    /\ one_hot' = OneHotFill(one_hot, Flatten(oh_arr))
    /\ opc' = "reshape"
    /\ UNCHANGED <<oh_arr, oh_labels>>
    /\ UNCHANGED notOneHot

\* one_hot = one_hot.reshape((*arr.shape, n_labels)); return one_hot
OHReshape ==
    /\ opc = "reshape"
    /\ one_hot' = Reshape(one_hot, Len(oh_arr))
    /\ opc' = "done"
    /\ UNCHANGED <<oh_arr, oh_labels>>
    /\ UNCHANGED notOneHot

NextOneHot == OHZeros \/ OHFill \/ OHReshape

SpecOneHot == InitOneHot /\ [][NextOneHot]_vars

---------------------------------------------------------------------------
(* train *)

\* len(range(0, stop, step))
RangeLen(stop, step) == (stop + step - 1) \div step

\* the pairs get_batches(a, bs, sl) yields, in order (its reshape never fails:
\* the truncated size is a multiple of bs)
Batches(a, bs, sl) ==
    LET k    == n_batches(a, bs, sl)
        g    == Reshape(Truncate(a, k * total_batch_size(bs, sl)), bs)
        sidx == Reshape(Truncate(Arange(Len(a)), k * total_batch_size(bs, sl)), bs)
    IN  [j \in 1..RangeLen(Cols(g), sl) |-> Window(g, sidx, (j - 1) * sl, sl)]

\* the indices of `whole` a window of a slice starting at `base` reads
IndexSet(w, base) ==
    {base + w.xi[r][c] : r \in 1..Len(w.xi), c \in 1..Len(w.xi[1])}
        \cup {base + w.yi[r][c] : r \in 1..Len(w.yi), c \in 1..Len(w.yi[1])}

\* val_idx = int(len(data)*(1-val_frac)), val_frac being num/den (the product
\* is taken exactly; binary floating point rounding is not modelled)
ValIdx(len, vf) == (len * (vf.den - vf.num)) \div vf.den

\* a training part that is the whole corpus
TrainPartAll(d, k) == d

\* data[:val_idx]
TrainPart(d, k) == SubSeq(d, 1, Min(k, Len(d)))

\* data[val_idx:]
ValPart(d, k) == SubSeq(d, k + 1, Len(d))

\* a range that runs one epoch too many
EpochRangeInclusive(ep) == ep + 1

\* len(range(epochs))
EpochRange(ep) == ep

\* net(inputs, h) on a window: the new state has absorbed the window (named
\* by its offset) and carries autograd history
net_call(hid, x) == [val |-> Append(hid.val, x), attached |-> TRUE]

\* The statements of the training loop body, each acting on the locals and on
\* the gradient held by the parameters.  `trace` lists them as they execute.
OpDetach(ws)        == [ws EXCEPT !.h = Detach(@), !.hin = Detach(ws.h),
                                  !.trace = Append(@, "detach")]
OpZeroGrad(ws)      == [ws EXCEPT !.grad = 0, !.trace = Append(@, "zero_grad")]
OpForward(ws, x)    == [ws EXCEPT !.h = net_call(@, x), !.trace = Append(@, "forward")]
OpLoss(ws)          == [ws EXCEPT !.trace = Append(@, "loss")]
\* loss.backward() adds this window's gradient to what the parameters hold
OpBackward(ws, raw) == [ws EXCEPT !.grad = @ + raw, !.raw = raw,
                                  !.trace = Append(@, "backward")]
\* clip_grad_norm_ scales the gradient down to norm `clip` when it is larger
OpClip(ws, c)       == [ws EXCEPT !.grad = Min(@, c), !.trace = Append(@, "clip")]
\* opt.step() applies the gradient the parameters hold
OpStep(ws)          == [ws EXCEPT !.update = ws.grad, !.steps = @ + 1,
                                  !.trace = Append(@, "step")]

\* a loop body that clips after the optimizer step
LoopBodyClipLate(ws, x, raw, c) ==
    OpClip(OpStep(OpBackward(OpLoss(OpForward(OpZeroGrad(OpDetach(ws)), x)), raw)), c)

\* lines 554-567: detach, zero_grad, forward, loss, backward, clip, step
LoopBody(ws, x, raw, c) ==
    OpStep(OpClip(OpBackward(OpLoss(OpForward(OpZeroGrad(OpDetach(ws)), x)), raw), c))

\* one corpus of each length; train looks at lengths and positions only
TrainCorpus(len) == [j \in 1..len |-> (j - 1) % (MaxId + 1)]

InitTrain ==
    /\ data \in {TrainCorpus(len) : len \in 0..MaxData}
    /\ epochs \in 0..MaxEpochs
    /\ batch_size \in 1..MaxN
    /\ seq_length \in 1..MaxM
    /\ clip \in 1..MaxClip
    /\ val_frac \in ValFracs
    /\ print_every \in 1..MaxPrintEvery
    /\ val_idx = 0 /\ train_data = <<>> /\ val_data = <<>> /\ epoch = 0 /\ counter = 0
    /\ t_h = init_hidden /\ val_h = init_hidden /\ mode = "eval" /\ wi = 0 /\ vi = 0
    /\ grad = 0 /\ last_win = <<>> /\ opt_steps = 0
    /\ tcalls = <<>> /\ vcalls = <<>> /\ vals = <<>>
    /\ tpc = "start"
    /\ arr = <<>> /\ grid = <<>> /\ src = <<>> /\ n = 0 /\ yielded = <<>> /\ gpc = "idle"
    /\ SampleIdle /\ VocabIdle /\ OneHotIdle

\* lines 524-537: net.train(), optimizer, split, counter = 0
TStart ==
    /\ tpc = "start"
    /\ mode' = "train"
    /\ val_idx' = ValIdx(Len(data), val_frac)
    /\ train_data' = TrainPart(data, ValIdx(Len(data), val_frac))
    /\ val_data' = ValPart(data, ValIdx(Len(data), val_frac))
    /\ counter' = 0
    /\ epoch' = 0
    /\ tpc' = "epoch"
    /\ UNCHANGED <<data, epochs, clip, val_frac, print_every, t_h, val_h, wi, vi,
                   grad, last_win, opt_steps, tcalls, vcalls, vals>>
    /\ UNCHANGED notTrain

\* an epoch start that re-initialises the state in the first epoch only
TEpochKeepState ==
    /\ tpc = "epoch"
    /\ epoch < EpochRange(epochs)
    /\ t_h' = IF epoch = 0 THEN init_hidden ELSE t_h
    /\ wi' = 0
    /\ tpc' = "batch"
    /\ UNCHANGED <<data, epochs, clip, val_frac, print_every, val_idx, train_data,
                   val_data, epoch, counter, val_h, mode, vi, grad, last_win,
                   opt_steps, tcalls, vcalls, vals>>
    /\ UNCHANGED notTrain

\* lines 538-542: next e of range(epochs); h = net.init_hidden(batch_size);
\* a fresh get_batches(data, ...)
TEpoch ==
    /\ tpc = "epoch"
    /\ epoch < EpochRange(epochs)
    /\ t_h' = init_hidden
    /\ wi' = 0
    /\ tpc' = "batch"
    /\ UNCHANGED <<data, epochs, clip, val_frac, print_every, val_idx, train_data,
                   val_data, epoch, counter, val_h, mode, vi, grad, last_win,
                   opt_steps, tcalls, vcalls, vals>>
    /\ UNCHANGED notTrain

\* lines 542-567: the next training window and the loop body up to opt.step()
TBatch ==
    /\ tpc = "batch"
    /\ wi < Len(Batches(train_data, batch_size, seq_length))
    /\ \E raw \in 0..(clip + 1) :
        LET w   == Batches(train_data, batch_size, seq_length)[wi + 1]
            ws0 == [h |-> t_h, hin |-> t_h, grad |-> grad, raw |-> 0, update |-> 0,
                    steps |-> opt_steps, trace |-> <<>>]
            ws  == LoopBody(ws0, w.n, raw, clip)
        IN  /\ t_h' = ws.h
            /\ grad' = ws.grad
            /\ opt_steps' = ws.steps
            /\ last_win' = [raw |-> ws.raw, update |-> ws.update, trace |-> ws.trace]
            /\ tcalls' = Append(tcalls,
                  [epoch |-> epoch, w |-> wi + 1, counter |-> counter + 1,
                   hin |-> ws.hin, hout |-> ws.h, mode |-> mode,
                   idxs |-> IndexSet(w, 0)])
    /\ counter' = counter + 1
    /\ wi' = wi + 1
    /\ tpc' = "stats"
    /\ UNCHANGED <<data, epochs, clip, val_frac, print_every, val_idx, train_data,
                   val_data, epoch, val_h, mode, vi, vcalls, vals>>
    /\ UNCHANGED notTrain

\* a counter that restarts in every epoch
StatsCounterPerEpoch == wi

\* the number tested at line 570
StatsCounter == counter

\* line 570, condition false: on to the next window
TSkipVal ==
    /\ tpc = "stats"
    /\ StatsCounter % print_every # 0
    /\ tpc' = "batch"
    /\ UNCHANGED <<data, epochs, clip, val_frac, print_every, val_idx, train_data,
                   val_data, epoch, counter, t_h, val_h, mode, wi, vi, grad, last_win,
                   opt_steps, tcalls, vcalls, vals>>
    /\ UNCHANGED notTrain

\* lines 570-575: val_h = net.init_hidden(batch_size); net.eval(); a fresh
\* get_batches(val_data, ...)
TValStart ==
    /\ tpc = "stats"
    /\ StatsCounter % print_every = 0
    /\ val_h' = init_hidden
    /\ mode' = "eval"
    /\ vi' = 0
    /\ vals' = Append(vals, [counter |-> counter, epoch |-> epoch, steps |-> opt_steps])
    /\ tpc' = "val"
    /\ UNCHANGED <<data, epochs, clip, val_frac, print_every, val_idx, train_data,
                   val_data, epoch, counter, t_h, wi, grad, last_win, opt_steps,
                   tcalls, vcalls>>
    /\ UNCHANGED notTrain

\* a validation step that runs on the training state h
TValBatchShared ==
    /\ tpc = "val"
    /\ vi < Len(Batches(val_data, batch_size, seq_length))
    /\ LET w   == Batches(val_data, batch_size, seq_length)[vi + 1]
           hin == Detach(t_h)
       IN  /\ t_h' = net_call(hin, w.n)
           /\ vcalls' = Append(vcalls,
                 [pass |-> Len(vals), w |-> vi + 1, hin |-> hin,
                  hout |-> net_call(hin, w.n), mode |-> mode, steps |-> opt_steps,
                  idxs |-> IndexSet(w, val_idx)])
    /\ vi' = vi + 1
    /\ UNCHANGED <<data, epochs, clip, val_frac, print_every, val_idx, train_data,
                   val_data, epoch, counter, val_h, mode, wi, grad, last_win,
                   opt_steps, tcalls, vals, tpc>>
    /\ UNCHANGED notTrain

\* lines 575-591: the next validation window: detach val_h, forward, loss
TValBatch ==
    /\ tpc = "val"
    /\ vi < Len(Batches(val_data, batch_size, seq_length))
    /\ LET w   == Batches(val_data, batch_size, seq_length)[vi + 1]
           hin == Detach(val_h)
       IN  /\ val_h' = net_call(hin, w.n)
           /\ vcalls' = Append(vcalls,
                 [pass |-> Len(vals), w |-> vi + 1, hin |-> hin,
                  hout |-> net_call(hin, w.n), mode |-> mode, steps |-> opt_steps,
                  idxs |-> IndexSet(w, val_idx)])
    /\ vi' = vi + 1
    /\ UNCHANGED <<data, epochs, clip, val_frac, print_every, val_idx, train_data,
                   val_data, epoch, counter, t_h, mode, wi, grad, last_win,
                   opt_steps, tcalls, vals, tpc>>
    /\ UNCHANGED notTrain

\* lines 593-598: the validation windows are exhausted: net.train(), print
TValEnd ==
    /\ tpc = "val"
    /\ vi >= Len(Batches(val_data, batch_size, seq_length))
    /\ mode' = "train"
    /\ tpc' = "batch"
    /\ UNCHANGED <<data, epochs, clip, val_frac, print_every, val_idx, train_data,
                   val_data, epoch, counter, t_h, val_h, wi, vi, grad, last_win,
                   opt_steps, tcalls, vcalls, vals>>
    /\ UNCHANGED notTrain

\* line 542: the training windows of this epoch are exhausted
TEpochEnd ==
    /\ tpc = "batch"
    /\ wi >= Len(Batches(train_data, batch_size, seq_length))
    /\ epoch' = epoch + 1
    /\ tpc' = "epoch"
    /\ UNCHANGED <<data, epochs, clip, val_frac, print_every, val_idx, train_data,
                   val_data, counter, t_h, val_h, mode, wi, vi, grad, last_win,
                   opt_steps, tcalls, vcalls, vals>>
    /\ UNCHANGED notTrain

\* line 538: range(epochs) is exhausted: train returns
TReturn ==
    /\ tpc = "epoch"
    /\ epoch >= EpochRange(epochs)
    /\ tpc' = "done"
    /\ UNCHANGED <<data, epochs, clip, val_frac, print_every, val_idx, train_data,
                   val_data, epoch, counter, t_h, val_h, mode, wi, vi, grad, last_win,
                   opt_steps, tcalls, vcalls, vals>>
    /\ UNCHANGED notTrain

NextTrain ==
    \/ TStart \/ TEpoch \/ TBatch \/ TSkipVal \/ TValStart
    \/ TValBatch \/ TValEnd \/ TEpochEnd \/ TReturn

SpecTrain == InitTrain /\ [][NextTrain]_vars

\* train is a straight-line loop nest with nothing to wait for: a step that
\* can be taken is taken
SpecTrainFair == InitTrain /\ [][NextTrain]_vars /\ WF_vars(NextTrain)

---------------------------------------------------------------------------
(* Properties of get_batches *)

\* K, N, M of the call, computed from the arguments alone
ArgK == Len(arr) \div (batch_size * seq_length)
ArgRowLen == ArgK * seq_length
\* element [r][c] (0-based) of the N x (K*M) row-major grid over the corpus
CorpusGrid(r, c) == arr[r * ArgRowLen + c + 1]

Rows == 1..batch_size
ColsOfWindow == 1..seq_length
WindowShaped(w) ==
    /\ Len(w.x) = batch_size /\ Len(w.y) = batch_size
    /\ \A r \in Rows : Len(w.x[r]) = seq_length /\ Len(w.y[r]) = seq_length

\* C1: in every yielded (x, y), both batch_size x seq_length, y[i][j] = x[i][j+1]
\* for every row i and every column j in [0, seq_length-2]
C1_TargetIsInputShifted ==
    \A t \in 1..Len(yielded) :
        /\ WindowShaped(yielded[t])
        /\ \A r \in Rows : \A j \in 1..(seq_length - 1) :
               yielded[t].y[r][j] = yielded[t].x[r][j + 1]

\* a window with at least two columns whose first two inputs differ in some row
C1_Witness ==
    /\ seq_length >= 2
    /\ \E t \in 1..Len(yielded) : \E r \in Rows :
           yielded[t].x[r][1] # yielded[t].x[r][2]

\* C2: the generator yields exactly K = len(arr) // (N*M) windows, the t-th at
\* offset t*M, and every cell of every yielded x and y is read from a corpus
\* index below K*N*M
C2_ExactlyKWindows ==
    /\ Len(yielded) <= ArgK
    /\ gpc = "done" => Len(yielded) = ArgK
    /\ gpc # "error"
    /\ \A t \in 1..Len(yielded) :
        /\ yielded[t].n = (t - 1) * seq_length
        /\ WindowShaped(yielded[t])
        /\ \A r \in Rows : \A j \in ColsOfWindow :
            /\ yielded[t].xi[r][j] < ArgK * batch_size * seq_length
            /\ yielded[t].yi[r][j] < ArgK * batch_size * seq_length
            /\ yielded[t].x[r][j] = arr[yielded[t].xi[r][j] + 1]
            /\ yielded[t].y[r][j] = arr[yielded[t].yi[r][j] + 1]

\* a finished run of at least two windows over a corpus with a discarded remainder
C2_Witness ==
    /\ gpc = "done"
    /\ Len(yielded) >= 2
    /\ Len(arr) > ArgK * batch_size * seq_length

\* C3: the last target column of the window at offset n is grid column n+M when
\* n+M < K*M and grid column 0 in the final window; the scenario corpus with
\* N = 2, M = 3 gives first input [[0,1,2],[0,1,2]] and target [[1,2,0],[1,2,0]]
C3_LastTargetColumn ==
    /\ \A t \in 1..Len(yielded) : \A r \in Rows :
          LET off == yielded[t].n
          IN  /\ Len(yielded[t].y[r]) = seq_length
              /\ yielded[t].y[r][seq_length] =
                    IF off + seq_length < ArgRowLen
                    THEN CorpusGrid(r - 1, off + seq_length)
                    ELSE CorpusGrid(r - 1, 0)
    /\ (arr = ExampleCorpus /\ batch_size = 2 /\ seq_length = 3 /\ Len(yielded) >= 1)
          => /\ yielded[1].x = << <<0, 1, 2>>, <<0, 1, 2>> >>
             /\ yielded[1].y = << <<1, 2, 0>>, <<1, 2, 0>> >>

\* a finished run with a non-final window whose last target differs from the
\* row's first element, so the two cases of the policy are told apart
C3_Witness ==
    /\ gpc = "done"
    /\ Len(yielded) >= 2
    /\ \E r \in Rows : yielded[1].y[r][seq_length] # CorpusGrid(r - 1, 0)
    /\ \A r \in Rows : yielded[Len(yielded)].y[r][seq_length] = CorpusGrid(r - 1, 0)

\* the inputs of row r over the windows yielded so far, concatenated
RowStream(r) == Flatten([t \in 1..Len(yielded) |-> yielded[t].x[r]])
InputCells == {<<t, r, j>> : t \in 1..Len(yielded), r \in Rows, j \in ColsOfWindow}

\* C4: the inputs of row i, concatenated in yield order, are the corpus slice
\* [i*K*M : (i+1)*K*M]; once the generator is done every index below K*N*M is
\* the source of exactly one input cell
C4_RowsAreContiguousStreams ==
    /\ \A r \in Rows :
          RowStream(r) = SubSeq(arr, (r - 1) * ArgRowLen + 1,
                                     (r - 1) * ArgRowLen + Len(yielded) * seq_length)
    /\ gpc = "done" =>
          /\ \A r \in Rows : Len(RowStream(r)) = ArgRowLen
          /\ \A k \in 0..(ArgK * batch_size * seq_length - 1) :
                Cardinality({c \in InputCells : yielded[c[1]].xi[c[2]][c[3]] = k}) = 1

\* a finished run of two rows and two windows whose row streams differ
C4_Witness ==
    /\ gpc = "done"
    /\ batch_size >= 2
    /\ Len(yielded) >= 2
    /\ RowStream(1) # RowStream(2)

\* C5: on a corpus shorter than N*M the generator raises nothing, yields nothing
\* and its loop is exhausted at once
C5_ShortCorpusYieldsNothing ==
    (Len(arr) < batch_size * seq_length) =>
        /\ gpc # "error"
        /\ yielded = <<>>
        /\ gpc = "loop" => n >= Cols(grid)

\* the generator finished on a non-empty corpus that is too short for one window
C5_Witness ==
    /\ gpc = "done"
    /\ 0 < Len(arr)
    /\ Len(arr) < batch_size * seq_length

\* the same on the empty corpus
C5_WitnessEmpty == gpc = "done" /\ arr = <<>>

---------------------------------------------------------------------------
(* Properties of sample and predict *)

V == Len(tokens)
P == Len(prime)
PrimeInVocabulary == P >= 1 /\ \A j \in 1..P : prime[j] \in Range(tokens)
Terminated == spc \in {"done", "error"}
\* the ids strictly more probable than c in the distribution p
Better(p, c) == {d \in DOMAIN p : p[d] > p[c]}

\* C6: for a non-empty prime over the vocabulary, sample returns a string of
\* len(prime) + 1 + size characters that starts with prime
C6_ReturnsPrimePlusOnePlusSize ==
    (PrimeInVocabulary /\ Terminated) =>
        /\ spc = "done"
        /\ Len(chars) = P + 1 + size
        /\ SubSeq(chars, 1, P) = prime

\* C7: with top_k = 1 sample returns len(prime) + 1 + size characters, each
\* emitted one the most probable of its distribution; the scenario returns
\* "ABBBBB"
C7_TopOneIsDeterministic ==
    (top_k = 1 /\ PrimeInVocabulary /\ Terminated) =>
        /\ spc = "done"
        /\ Len(chars) = P + 1 + size
        /\ \A j \in 1..Len(calls) : Better(calls[j].p, calls[j].id) = {}
        /\ ExampleSample => chars = <<"A", "B", "B", "B", "B", "B">>

\* C8: a character returned by predict is one of the top_k most probable ids
\* of that call's distribution (of all V ids when top_k is unset)
C8_DrawnFromCandidates ==
    \A j \in 1..Len(calls) :
        calls[j].drawn # None =>
            /\ calls[j].id \in calls[j].cand
            /\ calls[j].drawn = tokens[calls[j].id + 1]
            /\ DOMAIN calls[j].p = 0..(V - 1)
            /\ IF top_k = NoTopK
               THEN calls[j].cand = 0..(V - 1)
               ELSE /\ Cardinality(calls[j].cand) = top_k
                    /\ Cardinality(Better(calls[j].p, calls[j].id)) < top_k

\* a call with top_k = 2 of 3 that leaves a strictly less probable id out and
\* returns the second most probable one
C8_Witness ==
    /\ top_k = 2 /\ V = 3
    /\ \E j \in 1..Len(calls) :
        /\ calls[j].drawn # None
        /\ Cardinality(Better(calls[j].p, calls[j].id)) = 1
        /\ \E d \in (0..2) \ calls[j].cand : \A c \in calls[j].cand : calls[j].p[d] < calls[j].p[c]

\* C9: priming invokes the model once per character of prime, in order,
\* appends nothing while it runs and then appends the one character drawn by
\* the invocation that consumed the last priming character; generating
\* invocations come only after that
C9_PrimingAppendsLastDraw ==
    /\ \A j \in 1..Len(calls) :
          IF j <= P THEN calls[j].phase = "priming" /\ calls[j].ch = prime[j]
                    ELSE calls[j].phase = "generating"
    /\ spc = "priming" => /\ chars = prime
                          /\ idx <= Len(calls) /\ Len(calls) <= idx + 1
    /\ spc \in {"generating", "done"} =>
          /\ Len(calls) >= P
          /\ SubSeq(chars, 1, P) = prime
          /\ chars[P + 1] = calls[P].drawn
          /\ Len(chars) = P + 1 + idx
    /\ spc = "error" => chars = prime

\* sample returned after two priming steps that drew different characters
C9_Witness ==
    /\ spc = "done"
    /\ P = 2
    /\ calls[1].drawn # calls[2].drawn
    /\ chars[3] = calls[2].drawn

\* C10: a generating step feeds the character last appended to the output, and
\* every invocation receives the state the invocation before it returned (the
\* initial state for the first one)
C10_FeedbackAndStateCarry ==
    /\ \A j \in 1..Len(calls) :
        /\ calls[j].hin.val = (IF j = 1 THEN init_hidden.val ELSE calls[j - 1].hout.val)
        /\ calls[j].hout.val # init_hidden.val
        /\ calls[j].phase = "generating" =>
              /\ j <= Len(chars)
              /\ calls[j].ch = chars[j]
              /\ calls[j].drawn # None => (j + 1 <= Len(chars) /\ chars[j + 1] = calls[j].drawn)
    /\ spc \in {"generating", "done"} =>
        /\ Len(calls) = P + idx
        /\ Len(chars) = Len(calls) + 1
        /\ h = calls[Len(calls)].hout
    /\ spc = "done" => idx = size

\* sample returned after two generating steps that fed different characters
C10_Witness ==
    /\ spc = "done"
    /\ size >= 2
    /\ calls[P + 1].ch # calls[P + 2].ch
    /\ calls[P + 2].ch # chars[1]

\* the positions of prime that hold a character outside the vocabulary
UnknownAt == {j \in 1..P : prime[j] \notin Range(tokens)}
FirstUnknown == CHOOSE j \in UnknownAt : \A k \in UnknownAt : j <= k

\* C11: with an empty prime sample ends in an error and returns nothing; the
\* model is never invoked and no generating step is taken
C11_EmptyPrimeFails ==
    (prime = <<>>) =>
        /\ spc \notin {"generating", "done"}
        /\ calls = <<>>
        /\ chars = <<>>
        /\ spc = "priming" => char = Unbound
        /\ spc = "error" => serr = "UnboundLocalError"

\* sample failed on an empty prime although text was asked for with top_k set
C11_Witness ==
    /\ prime = <<>>
    /\ spc = "error"
    /\ size >= 1
    /\ top_k = 2

\* C12: with a character outside the vocabulary in prime, sample returns no
\* text; the model is only ever fed characters of the vocabulary under their
\* own id, it is not invoked for the unknown character, and reaching that
\* character ends sample with the lookup error
C12_UnknownCharacterFails ==
    /\ \A ch \in Alphabet \ Range(tokens) : ch \notin DOMAIN char2int(tokens)
    /\ UnknownAt # {} =>
        /\ spc \notin {"generating", "done"}
        /\ Len(calls) < FirstUnknown
        /\ \A j \in 1..Len(calls) :
            /\ calls[j].ch \in Range(tokens)
            /\ tokens[calls[j].hout.val[Len(calls[j].hout.val)] + 1] = calls[j].ch
        /\ (spc = "error" /\ idx + 1 = FirstUnknown) =>
              /\ serr = "KeyError"
              /\ Len(calls) = idx

\* sample consumed a known character and then failed on an unknown one
C12_Witness ==
    /\ UnknownAt # {}
    /\ spc = "error"
    /\ serr = "KeyError"
    /\ Len(calls) = 1
    /\ FirstUnknown = 2

---------------------------------------------------------------------------
(* Properties of the tokenization cell and of one_hot_encode *)

\* the number of distinct characters of the text
TextV == Cardinality(Range(text))

\* C13: int2char and char2int are inverse bijections between the distinct
\* characters of the text and 0..V-1; every element of the encoded text is in
\* 0..V-1 and decodes to the character at its position; the network built
\* from chars derives the same two mappings
C13_VocabularyIsBijection ==
    /\ vpc \in {"encode", "net", "done"} =>
        /\ DOMAIN i2c = 0..(TextV - 1)
        /\ DOMAIN c2i = Range(text)
        /\ \A c \in Range(text) : c2i[c] \in 0..(TextV - 1) /\ i2c[c2i[c]] = c
        /\ \A k \in 0..(TextV - 1) : i2c[k] \in Range(text) /\ c2i[i2c[k]] = k
    /\ vpc \in {"net", "done"} =>
        /\ Len(encoded) = Len(text)
        /\ \A j \in 1..Len(text) :
              encoded[j] \in 0..(TextV - 1) /\ i2c[encoded[j]] = text[j]
    /\ vpc = "done" =>
        /\ Len(tokens) = TextV
        /\ int2char(tokens) = i2c
        /\ char2int(tokens) = c2i

\* a text of three distinct characters, one of them repeated, tokenized in an
\* order that is neither alphabetical nor the order of first appearance
C13_Witness ==
    /\ vpc = "done"
    /\ TextV = 3
    /\ Len(text) = 4
    /\ vocab = <<"C", "A", "B">>
    /\ text[1] = "A"

\* C18: one_hot_encode returns an array of shape arr.shape + (n_labels,) whose
\* vector at each position holds a single 1, at the id found at that position;
\* [[3, 5, 1]] with 8 labels sets indices 3, 5 and 1
C18_OneHotMarksTheId ==
    opc = "done" =>
        /\ Len(one_hot) = Len(oh_arr)
        /\ \A r \in 1..Len(oh_arr) :
            /\ Len(one_hot[r]) = Len(oh_arr[r])
            /\ \A c \in 1..Len(oh_arr[r]) :
                /\ DOMAIN one_hot[r][c] = 0..(oh_labels - 1)
                /\ \A k \in 0..(oh_labels - 1) :
                      one_hot[r][c][k] = (IF k = oh_arr[r][c] THEN 1 ELSE 0)
                /\ one_hot[r][c] = one_hot_encode(oh_arr[r][c], oh_labels)
        /\ ExampleOneHot =>
              /\ {k \in 0..7 : one_hot[1][1][k] = 1} = {3}
              /\ {k \in 0..7 : one_hot[1][2][k] = 1} = {5}
              /\ {k \in 0..7 : one_hot[1][3][k] = 1} = {1}

\* a 2 x 2 array of three different ids was encoded
C18_Witness ==
    /\ opc = "done"
    /\ Len(oh_arr) = 2 /\ Len(oh_arr[1]) = 2
    /\ oh_arr[1][1] # oh_arr[1][2]
    /\ oh_arr[1][1] # oh_arr[2][1]
    /\ oh_arr[2][1] # oh_arr[1][2]

\* the test cell's array was encoded
C18_WitnessExample == opc = "done" /\ ExampleOneHot

---------------------------------------------------------------------------
(* Properties of train *)

\* K_train, computed from the length of the training part alone
KTrain == Len(train_data) \div (batch_size * seq_length)

\* the number of windows a validation pass reads
KVal == Len(val_data) \div (batch_size * seq_length)

\* C14: the state fed to the first window of every epoch is the initial
\* (all-zero) state; the state fed to window t+1 of an epoch is the value the
\* network returned for window t of the same epoch, detached; nothing is
\* carried from the last window of an epoch into the next epoch.
C14_StateResetPerEpochCarriedWithin ==
    /\ \A j \in 1..Len(tcalls) :
          LET c == tcalls[j]
          IN  /\ ~c.hin.attached
              /\ c.w = 1 => c.hin = init_hidden
              /\ c.w > 1 => /\ j > 1
                            /\ tcalls[j - 1].epoch = c.epoch
                            /\ tcalls[j - 1].w = c.w - 1
                            /\ c.hin.val = tcalls[j - 1].hout.val
              /\ (j > 1 /\ tcalls[j - 1].epoch # c.epoch) => c.w = 1
    /\ (tpc = "batch" /\ wi = 0) => t_h = init_hidden

\* a second epoch has run its second window
C14_Witness ==
    /\ tpc = "done"
    /\ \E j \in 1..Len(tcalls) : tcalls[j].epoch = 1 /\ tcalls[j].w = 2

\* C15: from the start of a validation pass to its end the optimizer takes
\* no step, the gradient and the step counter are untouched and the training
\* state h keeps its value; the first validation window is fed a fresh
\* initial state; the network is in eval mode for every validation window and
\* in train mode for every training window.
C15_ValidationIsSideEffectFree ==
    /\ [][(tpc = "val" \/ tpc' = "val")
            => (t_h' = t_h /\ opt_steps' = opt_steps /\ grad' = grad
                /\ counter' = counter /\ tcalls' = tcalls)]_vars
    /\ [](tpc = "val" => mode = "eval")
    /\ [](tpc = "batch" => mode = "train")
    /\ [](\A j \in 1..Len(vcalls) :
            /\ vcalls[j].mode = "eval"
            /\ ~vcalls[j].hin.attached
            /\ vcalls[j].w = 1 => vcalls[j].hin = init_hidden
            /\ vcalls[j].steps = vals[vcalls[j].pass].steps)
    /\ [](\A j \in 1..Len(tcalls) : tcalls[j].mode = "train")

\* a validation pass of two windows has run and a training window followed it
C15_Witness ==
    \E j \in 1..Len(vcalls), k \in 1..Len(tcalls) :
        /\ vcalls[j].w = 2
        /\ tcalls[k].counter > vcalls[j].steps
        /\ tcalls[k].w > 1
        /\ tcalls[k].hin.val # <<>>

\* C16: once train has started, val_idx = floor(len(data) * (1 - val_frac)),
\* the training part is data[:val_idx] and the validation part data[val_idx:],
\* their concatenation is the corpus, and every training window reads indices
\* below val_idx only (every validation window indices from val_idx on); no
\* window is produced before the split.
C16_SplitIsPrefixSuffix ==
    /\ tpc = "start" => (tcalls = <<>> /\ vcalls = <<>>)
    /\ tpc # "start" =>
          /\ val_idx = (Len(data) * (val_frac.den - val_frac.num)) \div val_frac.den
          /\ train_data = [j \in 1..val_idx |-> data[j]]
          /\ val_data = [j \in 1..(Len(data) - val_idx) |-> data[val_idx + j]]
          /\ train_data \o val_data = data
          /\ \A j \in 1..Len(tcalls) : tcalls[j].idxs \subseteq 0..(val_idx - 1)
          /\ \A j \in 1..Len(vcalls) :
                vcalls[j].idxs \subseteq val_idx..(Len(data) - 1)

\* both parts are non-empty and both have been read
C16_Witness ==
    /\ tpc = "done"
    /\ 0 < val_idx /\ val_idx < Len(data)
    /\ tcalls # <<>> /\ vcalls # <<>>

\* C17: train returns; when it has returned the optimizer has taken
\* epochs * K_train steps; when K_train = 0 no step is taken and no
\* validation pass runs.
C17_TerminatesAfterEpochsTimesK ==
    /\ <>(tpc = "done")
    /\ [](tpc = "done" => (opt_steps = epochs * KTrain /\ epoch = epochs))
    /\ []((tpc # "start" /\ KTrain = 0)
            => (opt_steps = 0 /\ tcalls = <<>> /\ vals = <<>> /\ vcalls = <<>>))

\* train has returned after two epochs or more of two windows or more
C17_Witness ==
    /\ tpc = "done"
    /\ epochs >= 2 /\ KTrain >= 2
    /\ opt_steps = epochs * KTrain

\* train has returned from epochs that had no window
C17_WitnessNoOp ==
    /\ tpc = "done"
    /\ epochs >= 1 /\ KTrain = 0 /\ Len(data) > 0

\* C19: the j-th validation pass runs right after training step
\* j * print_every, the steps being counted across epochs without a reset;
\* a pass has run for every multiple of print_every reached so far and for
\* nothing else.
C19_ValidationEveryPrintEverySteps ==
    /\ counter = Len(tcalls)
    /\ \A j \in 1..Len(tcalls) : tcalls[j].counter = j
    /\ \A j \in 1..Len(vals) :
          /\ vals[j].counter = j * print_every
          /\ vals[j].steps = j * print_every
    /\ Len(vals) = (IF tpc = "stats" THEN counter - 1 ELSE counter) \div print_every

\* the steps between two passes lie in two epochs
C19_Witness ==
    /\ print_every >= 2
    /\ \E j \in 2..Len(vals) :
          /\ vals[j - 1].epoch # vals[j].epoch
          /\ tcalls[vals[j].counter - 1].epoch # tcalls[vals[j].counter].epoch

\* C20: every training window runs detach, zero_grad, forward, loss,
\* backward, clip, step in this order; the update the optimizer applies is
\* the window's gradient clipped to `clip`; one optimizer step per window.
C20_ClipBetweenBackwardAndStep ==
    /\ opt_steps = Len(tcalls)
    /\ tcalls # <<>> =>
          /\ last_win.trace = <<"detach", "zero_grad", "forward", "loss",
                                "backward", "clip", "step">>
          /\ last_win.update = Min(last_win.raw, clip)
          /\ last_win.update <= clip

\* a window whose gradient exceeded the bound
C20_Witness ==
    /\ Len(tcalls) >= 2
    /\ last_win.raw > clip

---------------------------------------------------------------------------
(* Closure of the vocabulary under predict *)

\* C21: every character predict returns is a key of net.char2int; so a
\* failed lookup of net.char2int[char] can only happen while priming, on a
\* character of prime, and never on a character fed back while generating,
\* whatever size is and whether top_k is unset or in 1..V.
C21_PredictStaysInVocabulary ==
    /\ \A ch \in Range(tokens) :
          \A o \in predict(tokens, net, ch, h, top_k) :
              /\ o.invoked
              /\ o.ok => o.char \in DOMAIN char2int(tokens)
    /\ \A j \in 1..Len(calls) :
          /\ calls[j].drawn # None => calls[j].drawn \in DOMAIN char2int(tokens)
          /\ calls[j].ch \in DOMAIN char2int(tokens)
    /\ char # Unbound => char \in DOMAIN char2int(tokens)
    /\ spc \in {"generating", "done"} => chars[Len(chars)] \in DOMAIN char2int(tokens)
    /\ (spc = "error" /\ serr = "KeyError") =>
          /\ chars = prime
          /\ idx < Len(prime) /\ prime[idx + 1] \notin DOMAIN char2int(tokens)
          /\ \A j \in 1..Len(calls) : calls[j].phase = "priming"

\* sample has returned after feeding back, twice or more, characters that
\* predict drew, one of them a character prime does not contain
C21_Witness ==
    /\ spc = "done"
    /\ size >= 2
    /\ Len(chars) = Len(prime) + 1 + size
    /\ \E j \in 1..Len(calls) :
          calls[j].phase = "generating" /\ calls[j].ch \notin Range(prime)

=============================================================================
